---- MODULE Spec2Model ----
(***************************************************************************)
(* GeminiTask: the SQLite store of database.py (contexts, projects, tasks), *)
(* the date resolution of utils.py and the commands of geminitask.py.       *)
(*                                                                          *)
(* Python None / SQL NULL is the empty tuple None; any other value v is the *)
(* one-element tuple Some(v).  TEXT values that SQLite orders (priority,    *)
(* due_date_time) are tuples of byte/digit codes compared as memcmp does.   *)
(***************************************************************************)
EXTENDS Integers, Sequences, FiniteSets, TLC

VARIABLES contexts, projects, tasks, seq, now, api_key, result,
          connections, pending

vars == <<contexts, projects, tasks, seq, now, api_key, result, connections, pending>>

store == <<contexts, projects, tasks, seq>>

\* ---------------------------------------------------------------- bounds
\* Task ids the store specification issues.
MaxTasks == 2
\* Task ids the listing specification issues.
MaxListTasks == 2
\* Days the clock may advance past StartDay.
MaxDays == 1

\* ------------------------------------------------------- optional values
None == <<>>

Some(v) == <<v>>

Val(o) == o[1]

\* Python truthiness of an optional string: None and "" are falsy.
Truthy(o) == o # None /\ Val(o) # ""

\* ------------------------------------------------------------------ text
\* The bytes of the three priority words, as SQLite's BINARY collation sees them.
TextBytes(s) ==
    CASE s = "high"   -> <<104, 105, 103, 104>>
      [] s = "medium" -> <<109, 101, 100, 105, 117, 109>>
      [] s = "low"    -> <<108, 111, 119>>

RECURSIVE LexLess(_, _)
\* memcmp order of two byte strings, the shorter first on a common prefix.
LexLess(a, b) ==
    IF b = <<>> THEN FALSE
    ELSE IF a = <<>> THEN TRUE
    ELSE IF Head(a) # Head(b) THEN Head(a) < Head(b)
    ELSE LexLess(Tail(a), Tail(b))

\* SQLite's ORDER BY comparison of two nullable TEXT values: NULL sorts before
\* every text, texts by memcmp.
SqlLess(a, b) ==
    IF a = None THEN b # None
    ELSE IF b = None THEN FALSE
    ELSE LexLess(Val(a), Val(b))

\* ----------------------------------------------------------------- clock
\* Dates are day-of-year ordinals of 2025 (1 = January 1st); a datetime is
\* [date, h, m, s] (microseconds never reach a formatted value).
StartDay == 59

MonthStart == <<0, 31, 59, 90, 120, 151, 181, 212, 243, 273, 304, 334, 365>>

MonthOf(d) == CHOOSE k \in 1..12 : MonthStart[k] < d /\ d <= MonthStart[k + 1]

DayOf(d) == d - MonthStart[MonthOf(d)]

TimesOfDay == {<<0, 0, 0>>, <<14, 30, 0>>, <<23, 59, 59>>}

DateTime(d, t) == [date |-> d, h |-> t[1], m |-> t[2], s |-> t[3]]

Days == StartDay..(StartDay + MaxDays)

Instants == {DateTime(d, t) : d \in Days, t \in TimesOfDay}

SecondOfDay(dt) == dt.h * 3600 + dt.m * 60 + dt.s

\* a is not later than b
NotAfter(a, b) ==
    \/ a.date < b.date
    \/ a.date = b.date /\ SecondOfDay(a) <= SecondOfDay(b)

TwoDigits(n) == <<n \div 10, n % 10>>

\* strftime("%Y-%m-%d %H:%M:%S"): the digits of the fixed-width, zero-padded
\* text (the separators, at fixed positions, are left out).
Strftime(dt) ==
    <<2, 0, 2, 5>> \o TwoDigits(MonthOf(dt.date)) \o TwoDigits(DayOf(dt.date))
        \o TwoDigits(dt.h) \o TwoDigits(dt.m) \o TwoDigits(dt.s)

\* ------------------------------------------------------------- the store
Ret(ok, err, val) == [success |-> ok, error |-> err, value |-> val]

Call(op, args, ret) == [op |-> op, args |-> args, ret |-> ret]

\* SELECT * FROM <table> WHERE name = ?  (fetchone: the row, or None)
FindByName(rows, name) ==
    IF \E r \in rows : r.name = name
    THEN Some(CHOOSE r \in rows : r.name = name)
    ELSE None

get_context_by_name(name) == FindByName(contexts, name)

get_project_by_name(name) == FindByName(projects, name)

\* INTEGER PRIMARY KEY without AUTOINCREMENT: one past the largest id now in
\* the table.
NextRowIdOfLiveRows(rows, last) ==
    IF rows = {} THEN 1
    ELSE (CHOOSE i \in {r.id : r \in rows} : \A r \in rows : r.id <= i) + 1

\* INTEGER PRIMARY KEY AUTOINCREMENT: the id after the largest one the table
\* ever used (sqlite_sequence), so that the id of a deleted row is not reused.
NextRowId(rows, last) == last + 1

\* The insert without its conn.commit(): the id is handed back, the row is not
\* stored.
InsertNamedUncommitted(rows, last, name) ==
    IF name = None \/ \E r \in rows : r.name = Val(name)
    THEN [rows |-> rows, last |-> last, ret |-> Ret(FALSE, "AlreadyExists", None)]
    ELSE [rows |-> rows, last |-> last,
          ret  |-> Ret(TRUE, "", Some(NextRowId(rows, last)))]

\* The insert into a table whose name column is not UNIQUE.
InsertNamedNotUnique(rows, last, name) ==
    IF name = None
    THEN [rows |-> rows, last |-> last, ret |-> Ret(FALSE, "AlreadyExists", None)]
    ELSE [rows |-> rows \cup {[id |-> NextRowId(rows, last), name |-> Val(name)]},
          last |-> NextRowId(rows, last),
          ret  |-> Ret(TRUE, "", Some(NextRowId(rows, last)))]

\* INSERT INTO <table> (name): NOT NULL and UNIQUE raise IntegrityError, which
\* add_context/add_project report as "already exists".
InsertNamed(rows, last, name) ==
    IF name = None \/ \E r \in rows : r.name = Val(name)
    THEN [rows |-> rows, last |-> last, ret |-> Ret(FALSE, "AlreadyExists", None)]
    ELSE [rows |-> rows \cup {[id |-> NextRowId(rows, last), name |-> Val(name)]},
          last |-> NextRowId(rows, last),
          ret  |-> Ret(TRUE, "", Some(NextRowId(rows, last)))]

Init ==
    /\ contexts = {}
    /\ projects = {}
    /\ tasks = {}
    /\ seq = [contexts |-> 0, projects |-> 0, tasks |-> 0]
    /\ now = DateTime(StartDay, <<14, 30, 0>>)
    /\ api_key = ""
    /\ result = Call("init_db", None, Ret(TRUE, "", None))
    \* the connections the last store operation opened and had not closed when
    \* it returned
    /\ connections = 0
    \* the add_task call that is between two of its transactions, if any
    /\ pending = None

\* The wall clock moves on between two calls.
Tick ==
    /\ \E t \in Instants : NotAfter(now, t) /\ t # now /\ now' = t
    /\ result' = Call("tick", None, Ret(TRUE, "", None))
    /\ UNCHANGED <<store, api_key, connections, pending>>

AddContext(name) ==
    LET r == InsertNamed(contexts, seq.contexts, name) IN
    /\ contexts' = r.rows
    /\ seq' = [seq EXCEPT !.contexts = r.last]
    /\ result' = Call("add_context", name, r.ret)
    /\ connections' = 0
    /\ UNCHANGED <<projects, tasks, now, api_key, pending>>

AddProject(name) ==
    LET r == InsertNamed(projects, seq.projects, name) IN
    /\ projects' = r.rows
    /\ seq' = [seq EXCEPT !.projects = r.last]
    /\ result' = Call("add_project", name, r.ret)
    /\ connections' = 0
    /\ UNCHANGED <<contexts, tasks, now, api_key, pending>>

\* ----------------------------------------------------------------- tasks
\* The name a LEFT JOIN on <table>.id yields for a nullable reference.
JoinName(rows, ref) ==
    IF ref # None /\ \E r \in rows : r.id = Val(ref)
    THEN Some((CHOOSE r \in rows : r.id = Val(ref)).name)
    ELSE None

\* SELECT t.*, c.name as context_name, p.name as project_name ... LEFT JOIN
Joined(t, ctxs, projs) ==
    [id |-> t.id, description |-> t.description, priority |-> t.priority,
     due_date_time |-> t.due_date_time, context_id |-> t.context_id,
     project_id |-> t.project_id, completed |-> t.completed,
     context_name |-> JoinName(ctxs, t.context_id),
     project_name |-> JoinName(projs, t.project_id)]

get_task(task_id) ==
    IF \E t \in tasks : t.id = task_id
    THEN Some(Joined(CHOOSE t \in tasks : t.id = task_id, contexts, projects))
    ELSE None

\* add_task creating the row without looking the name up first.
ResolveForAddNoLookup(rows, last, name) ==
    IF ~Truthy(name) THEN [rows |-> rows, last |-> last, id |-> None]
    ELSE LET r == InsertNamed(rows, last, name) IN
         [rows |-> r.rows, last |-> r.last,
          id |-> IF r.ret.success THEN r.ret.value ELSE None]

\* add_task's lookup-or-create of a context/project name: a falsy name gives no
\* id; a found row gives its id; otherwise the row is inserted, and a failed
\* insert leaves the id None.
ResolveForAdd(rows, last, name) ==
    IF ~Truthy(name) THEN [rows |-> rows, last |-> last, id |-> None]
    ELSE IF FindByName(rows, Val(name)) # None
    THEN [rows |-> rows, last |-> last, id |-> Some(Val(FindByName(rows, Val(name))).id)]
    ELSE LET r == InsertNamed(rows, last, name) IN
         [rows |-> r.rows, last |-> r.last,
          id |-> IF r.ret.success THEN r.ret.value ELSE None]

AddTask(max, description, priority, due_date_time, context_name, project_name) ==
    LET c == ResolveForAdd(contexts, seq.contexts, context_name)
        p == ResolveForAdd(projects, seq.projects, project_name)
        args == [description |-> description, priority |-> priority,
                 due_date_time |-> due_date_time, context_name |-> context_name,
                 project_name |-> project_name]
        row == [id |-> NextRowId(tasks, seq.tasks), description |-> description,
                priority |-> priority, due_date_time |-> due_date_time,
                context_id |-> c.id, project_id |-> p.id, completed |-> FALSE]
    IN
    /\ seq.tasks < max
    /\ contexts' = c.rows
    /\ projects' = p.rows
    /\ IF description = None
       THEN \* NOT NULL constraint failed: rollback of the task insert alone
            /\ tasks' = tasks
            /\ seq' = [seq EXCEPT !.contexts = c.last, !.projects = p.last]
            /\ result' = Call("add_task", args, Ret(FALSE, "Failure", None))
       ELSE /\ tasks' = tasks \cup {row}
            /\ seq' = [contexts |-> c.last, projects |-> p.last, tasks |-> row.id]
            /\ result' = Call("add_task", args,
                              Ret(TRUE, "", Some(Joined(row, c.rows, p.rows))))
    /\ connections' = 0
    /\ UNCHANGED <<now, api_key, pending>>

\* mark_task_done with a rowcount of the rows whose value changed.
MarkTaskDoneChangedRows(task_id) ==
    LET hit == {t \in tasks : t.id = task_id /\ ~t.completed} IN
    /\ tasks' = (tasks \ hit) \cup {[t EXCEPT !.completed = TRUE] : t \in hit}
    /\ result' = Call("mark_task_done", task_id,
                      IF Cardinality(hit) > 0 THEN Ret(TRUE, "", None)
                      ELSE Ret(FALSE, "NotFound", None))
    /\ connections' = 0
    /\ UNCHANGED <<contexts, projects, seq, now, api_key, pending>>

\* UPDATE tasks SET completed = 1 WHERE id = ?: rowcount counts the matched
\* rows, changed or not.
MarkTaskDone(task_id) ==
    LET hit == {t \in tasks : t.id = task_id} IN
    /\ tasks' = (tasks \ hit) \cup {[t EXCEPT !.completed = TRUE] : t \in hit}
    /\ result' = Call("mark_task_done", task_id,
                      IF Cardinality(hit) > 0 THEN Ret(TRUE, "", None)
                      ELSE Ret(FALSE, "NotFound", None))
    /\ connections' = 0
    /\ UNCHANGED <<contexts, projects, seq, now, api_key, pending>>

DeleteTask(task_id) ==
    LET hit == {t \in tasks : t.id = task_id} IN
    /\ tasks' = tasks \ hit
    /\ result' = Call("delete_task", task_id,
                      IF Cardinality(hit) > 0 THEN Ret(TRUE, "", None)
                      ELSE Ret(FALSE, "NotFound", None))
    /\ connections' = 0
    /\ UNCHANGED <<contexts, projects, seq, now, api_key, pending>>

\* edit_task testing the name for truth ("if context_name:") where the code
\* tests "is not None": the empty string then counts as not supplied.
ResolveForEditTruthy(rows, last, name, current) ==
    IF ~Truthy(name)
    THEN [rows |-> rows, last |-> last, id |-> current, update |-> FALSE, failed |-> FALSE]
    ELSE IF FindByName(rows, Val(name)) # None
    THEN [rows |-> rows, last |-> last,
          id |-> Some(Val(FindByName(rows, Val(name))).id),
          update |-> TRUE, failed |-> FALSE]
    ELSE LET r == InsertNamed(rows, last, name) IN
         [rows |-> r.rows, last |-> r.last, id |-> r.ret.value,
          update |-> TRUE, failed |-> ~r.ret.success]

\* edit_task's handling of context_name/project_name: not supplied keeps the
\* current id and adds no update; "" sets None; a name is looked up or created,
\* and a failed creation makes edit_task return that failure.
ResolveForEdit(rows, last, name, current) ==
    IF name = None
    THEN [rows |-> rows, last |-> last, id |-> current, update |-> FALSE, failed |-> FALSE]
    ELSE IF Val(name) = ""
    THEN [rows |-> rows, last |-> last, id |-> None, update |-> TRUE, failed |-> FALSE]
    ELSE IF FindByName(rows, Val(name)) # None
    THEN [rows |-> rows, last |-> last,
          id |-> Some(Val(FindByName(rows, Val(name))).id),
          update |-> TRUE, failed |-> FALSE]
    ELSE LET r == InsertNamed(rows, last, name) IN
         [rows |-> r.rows, last |-> r.last, id |-> r.ret.value,
          update |-> TRUE, failed |-> ~r.ret.success]

Supplied(new, old) == IF new # None THEN new ELSE old

\* edit_task writing the row anew (INSERT OR REPLACE) instead of updating the
\* columns supplied: completed falls back to its default.
EditTaskReplacingRow(task_id, description, priority, due_date_time, context_name, project_name) ==
    LET args == [task_id |-> task_id, description |-> description,
                 priority |-> priority, due_date_time |-> due_date_time,
                 context_name |-> context_name, project_name |-> project_name]
        current_task == get_task(task_id)
    IN
    IF current_task = None
    THEN /\ result' = Call("edit_task", args, Ret(FALSE, "NotFound", None))
         /\ connections' = 1
         /\ UNCHANGED <<store, now, api_key, pending>>
    ELSE
    LET cur == CHOOSE t \in tasks : t.id = task_id
        c == ResolveForEdit(contexts, seq.contexts, context_name, cur.context_id)
        p == IF c.failed
             THEN [rows |-> projects, last |-> seq.projects, id |-> cur.project_id,
                   update |-> FALSE, failed |-> FALSE]
             ELSE ResolveForEdit(projects, seq.projects, project_name, cur.project_id)
        updates == description # None \/ priority # None \/ due_date_time # None
                       \/ c.update \/ p.update
        row == [cur EXCEPT !.description = Supplied(description, @),
                           !.priority = Supplied(priority, @),
                           !.due_date_time = Supplied(due_date_time, @),
                           !.context_id = c.id,
                           !.project_id = p.id,
                           !.completed = FALSE]
    IN
    /\ contexts' = c.rows
    /\ projects' = p.rows
    /\ seq' = [seq EXCEPT !.contexts = c.last, !.projects = p.last]
    /\ IF c.failed \/ p.failed
       THEN /\ tasks' = tasks
            /\ result' = Call("edit_task", args, Ret(FALSE, "AlreadyExists", None))
            /\ connections' = 1
       ELSE IF ~updates
       THEN /\ tasks' = tasks
            /\ result' = Call("edit_task", args, Ret(FALSE, "NoUpdates", None))
            /\ connections' = 1
       ELSE /\ tasks' = (tasks \ {cur}) \cup {row}
            /\ result' = Call("edit_task", args,
                              Ret(TRUE, "", Some(Joined(row, c.rows, p.rows))))
            /\ connections' = 0
    /\ UNCHANGED <<now, api_key, pending>>

EditTask(task_id, description, priority, due_date_time, context_name, project_name) ==
    LET args == [task_id |-> task_id, description |-> description,
                 priority |-> priority, due_date_time |-> due_date_time,
                 context_name |-> context_name, project_name |-> project_name]
        current_task == get_task(task_id)
    IN
    IF current_task = None
    THEN \* returns at line 335, before any conn.close()
         /\ result' = Call("edit_task", args, Ret(FALSE, "NotFound", None))
         /\ connections' = 1
         /\ UNCHANGED <<store, now, api_key, pending>>
    ELSE
    LET cur == CHOOSE t \in tasks : t.id = task_id
        c == ResolveForEdit(contexts, seq.contexts, context_name, cur.context_id)
        \* the project is resolved only when the context did not fail
        p == IF c.failed
             THEN [rows |-> projects, last |-> seq.projects, id |-> cur.project_id,
                   update |-> FALSE, failed |-> FALSE]
             ELSE ResolveForEdit(projects, seq.projects, project_name, cur.project_id)
        updates == description # None \/ priority # None \/ due_date_time # None
                       \/ c.update \/ p.update
        row == [cur EXCEPT !.description = Supplied(description, @),
                           !.priority = Supplied(priority, @),
                           !.due_date_time = Supplied(due_date_time, @),
                           !.context_id = c.id,
                           !.project_id = p.id]
    IN
    /\ contexts' = c.rows
    /\ projects' = p.rows
    /\ seq' = [seq EXCEPT !.contexts = c.last, !.projects = p.last]
    /\ IF c.failed \/ p.failed
       THEN \* "return result" at line 363 or 382, before any conn.close()
            /\ tasks' = tasks
            /\ result' = Call("edit_task", args, Ret(FALSE, "AlreadyExists", None))
            /\ connections' = 1
       ELSE IF ~updates
       THEN \* returns at line 392, before the try ... finally
            /\ tasks' = tasks
            /\ result' = Call("edit_task", args, Ret(FALSE, "NoUpdates", None))
            /\ connections' = 1
       ELSE /\ tasks' = (tasks \ {cur}) \cup {row}
            /\ result' = Call("edit_task", args,
                              Ret(TRUE, "", Some(Joined(row, c.rows, p.rows))))
            /\ connections' = 0
    /\ UNCHANGED <<now, api_key, pending>>

\* ------------------------------------------------- the store specification
\* Names given to add_context; add_project mirrors it and is given the
\* non-empty name alone.
Names == {"", "work"}

ProjectNames == {"work"}

\* context_name/project_name as add_task and edit_task get them
NameInputs == {None} \cup {Some(n) : n \in Names}

TaskIds == 1..MaxTasks

\* <<description, context_name, project_name>> of add_task: every pair of names
\* with a description, and the insert that fails for want of one.
AddInputs ==
    {<<Some("a"), c, p>> : c \in NameInputs, p \in NameInputs}
        \cup {<<None, c, c>> : c \in NameInputs}

\* <<description, context_name, project_name>> of edit_task: every pair of names,
\* and the description alone.
EditInputs ==
    {<<None, c, p>> : c \in NameInputs, p \in NameInputs}
        \cup {<<Some("a"), None, None>>}

Next ==
    \/ \E n \in Names : AddContext(Some(n))
    \/ \E n \in ProjectNames : AddProject(Some(n))
    \/ \E a \in AddInputs : AddTask(MaxTasks, a[1], Some("medium"), None, a[2], a[3])
    \/ \E i \in TaskIds : MarkTaskDone(i)
    \/ \E i \in TaskIds : DeleteTask(i)
    \/ \E i \in TaskIds, e \in EditInputs : EditTask(i, e[1], None, None, e[2], e[3])

Spec == Init /\ [][Next]_vars

\* ------------------------------------------------------------- list_tasks
Clause(kind, a, b) == [kind |-> kind, a |-> a, b |-> b]

\* list_tasks without the "AND t.completed = 1" of the completed flag.
WhereWithoutCompletedClause(f, nowText) ==
    (IF ~f.all_tasks /\ ~f.completed
        THEN <<Clause("completed =", FALSE, None)>> ELSE <<>>)
    \o (IF Truthy(f.priority)
        THEN <<Clause("priority =", Val(f.priority), None)>> ELSE <<>>)
    \o (IF f.due_range # None
        THEN <<Clause("due BETWEEN", Val(f.due_range)[1], Val(f.due_range)[2])>> ELSE <<>>)
    \o (IF Truthy(f.context_name)
        THEN <<Clause("context =", Val(f.context_name), None)>> ELSE <<>>)
    \o (IF Truthy(f.project_name)
        THEN <<Clause("project =", Val(f.project_name), None)>> ELSE <<>>)
    \o (IF f.overdue
        THEN <<Clause("due <", Some(nowText), None), Clause("completed =", FALSE, None)>>
        ELSE <<>>)

\* The WHERE clause list_tasks builds: one AND-ed term per filter that is set
\* (a due_range tuple counts as set whatever it holds).
Where(f, nowText) ==
    (IF ~f.all_tasks /\ ~f.completed
        THEN <<Clause("completed =", FALSE, None)>> ELSE <<>>)
    \o (IF f.completed
        THEN <<Clause("completed =", TRUE, None)>> ELSE <<>>)
    \o (IF Truthy(f.priority)
        THEN <<Clause("priority =", Val(f.priority), None)>> ELSE <<>>)
    \o (IF f.due_range # None
        THEN <<Clause("due BETWEEN", Val(f.due_range)[1], Val(f.due_range)[2])>> ELSE <<>>)
    \o (IF Truthy(f.context_name)
        THEN <<Clause("context =", Val(f.context_name), None)>> ELSE <<>>)
    \o (IF Truthy(f.project_name)
        THEN <<Clause("project =", Val(f.project_name), None)>> ELSE <<>>)
    \o (IF f.overdue
        THEN <<Clause("due <", Some(nowText), None), Clause("completed =", FALSE, None)>>
        ELSE <<>>)

\* The term of the overdue filter read as "not after now".
HoldsDueNotAfter(c, row) ==
    CASE c.kind = "completed =" -> row.completed = c.a
      [] c.kind = "priority ="  -> row.priority # None /\ Val(row.priority) = c.a
      [] c.kind = "context ="   -> row.context_name # None /\ Val(row.context_name) = c.a
      [] c.kind = "project ="   -> row.project_name # None /\ Val(row.project_name) = c.a
      [] c.kind = "due BETWEEN" ->
            /\ row.due_date_time # None /\ c.a # None /\ c.b # None
            /\ ~LexLess(Val(row.due_date_time), Val(c.a))
            /\ ~LexLess(Val(c.b), Val(row.due_date_time))
      [] c.kind = "due <"       ->
            /\ row.due_date_time # None /\ c.a # None
            /\ ~LexLess(Val(c.a), Val(row.due_date_time))

\* Whether a term of the WHERE clause is true of a joined row; a comparison
\* with NULL is not true.
Holds(c, row) ==
    CASE c.kind = "completed =" -> row.completed = c.a
      [] c.kind = "priority ="  -> row.priority # None /\ Val(row.priority) = c.a
      [] c.kind = "context ="   -> row.context_name # None /\ Val(row.context_name) = c.a
      [] c.kind = "project ="   -> row.project_name # None /\ Val(row.project_name) = c.a
      [] c.kind = "due BETWEEN" ->
            /\ row.due_date_time # None /\ c.a # None /\ c.b # None
            /\ ~LexLess(Val(row.due_date_time), Val(c.a))
            /\ ~LexLess(Val(c.b), Val(row.due_date_time))
      [] c.kind = "due <"       ->
            /\ row.due_date_time # None /\ c.a # None
            /\ LexLess(Val(row.due_date_time), Val(c.a))

PriorityText(p) == IF p = None THEN None ELSE Some(TextBytes(Val(p)))

\* ORDER BY t.due_date_time ASC, t.priority DESC, t.id ASC
OrderBefore(a, b) ==
    IF a.due_date_time # b.due_date_time
    THEN SqlLess(a.due_date_time, b.due_date_time)
    ELSE IF a.priority # b.priority
    THEN SqlLess(PriorityText(b.priority), PriorityText(a.priority))
    ELSE a.id < b.id

RECURSIVE OrderBy(_)
OrderBy(rows) ==
    IF rows = {} THEN <<>>
    ELSE LET first == CHOOSE r \in rows : \A o \in rows \ {r} : OrderBefore(r, o)
         IN <<first>> \o OrderBy(rows \ {first})

list_tasks(f, nowText) ==
    LET where == Where(f, nowText)
        rows == {Joined(t, contexts, projects) : t \in tasks}
    IN OrderBy({r \in rows : \A k \in 1..Len(where) : Holds(where[k], r)})

ListTasks(f) ==
    /\ result' = Call("list_tasks", f, Ret(TRUE, "", list_tasks(f, Strftime(now))))
    /\ connections' = 0
    /\ UNCHANGED <<store, now, api_key, pending>>

\* ----------------------------------------------- the listing specification
\* The clock of the listing: before the end of the first day, at it, and at
\* the end of the next day.
ListInstants ==
    {DateTime(StartDay, <<14, 30, 0>>), DateTime(StartDay, <<23, 59, 59>>),
     DateTime(StartDay + 1, <<23, 59, 59>>)}

ListTick ==
    /\ \E t \in ListInstants : NotAfter(now, t) /\ t # now /\ now' = t
    /\ result' = Call("tick", None, Ret(TRUE, "", None))
    /\ UNCHANGED <<store, api_key, connections, pending>>

EndOfDay(d) == Some(Strftime(DateTime(d, <<23, 59, 59>>)))

\* <<priority, due_date_time, context_name, project_name>> of the tasks listed
ListAddInputs ==
    {<<Some("low"), EndOfDay(StartDay), Some("work"), None>>,
     <<Some("high"), EndOfDay(StartDay), None, Some("work")>>,
     <<Some("high"), None, Some("work"), None>>,
     <<Some("medium"), EndOfDay(StartDay + 1), None, Some("work")>>}

\* The range parse_date_range gives for "today" on the first day.
FirstDayRange ==
    Some(<<Some(Strftime(DateTime(StartDay, <<0, 0, 0>>))), EndOfDay(StartDay)>>)

Filter(all, completed, overdue, priority, due_range, context_name, project_name) ==
    [all_tasks |-> all, priority |-> priority, due_range |-> due_range,
     context_name |-> context_name, project_name |-> project_name,
     overdue |-> overdue, completed |-> completed]

\* Every combination of the three flags, alone, with each other filter and
\* with all of them.
Filters ==
    {Filter(a, c, o, x[1], x[2], x[3], x[4]) :
        a \in BOOLEAN, c \in BOOLEAN, o \in BOOLEAN,
        x \in {<<None, None, None, None>>,
               <<Some("high"), None, None, None>>,
               <<None, FirstDayRange, None, None>>,
               <<None, None, Some("work"), None>>,
               <<None, None, None, Some("work")>>,
               <<Some("high"), FirstDayRange, Some("work"), None>>}}

ListTaskIds == 1..MaxListTasks

NextList ==
    \/ \E a \in ListAddInputs : AddTask(MaxListTasks, Some("a"), a[1], a[2], a[3], a[4])
    \/ \E i \in ListTaskIds : MarkTaskDone(i)
    \/ \E f \in Filters : ListTasks(f)
    \/ ListTick

SpecList == Init /\ [][NextList]_vars

\* ------------------------------------------------------- date resolution
\* config.set_api_key
SetApiKey(key) ==
    /\ api_key' = key
    /\ result' = Call("set_api_key", key, Ret(TRUE, "", None))
    /\ UNCHANGED <<store, now, connections, pending>>

\* initialize_gemini: a credential is configured
initialize_gemini == api_key # ""

StartOfDay(d) == DateTime(d, <<0, 0, 0>>)

\* What dateutil's parser finds in a text: [date, time], each None when the
\* text holds none; a text with neither raises ParserError.
Parseable(text) == text.date # None \/ text.time # None

\* parser.parse(text, fuzzy=True): the fields found replace those of the
\* default, today at 00:00:00.
DateutilParse(text, today) ==
    DateTime(IF text.date # None THEN Val(text.date) ELSE today.date,
             IF text.time # None THEN Val(text.time) ELSE <<0, 0, 0>>)

\* extract_date_time's local branch: a parsed time of 00:00:00 becomes 23:59:59.
LocalDateTime(text, today) ==
    LET dt == DateutilParse(text, today) IN
    IF dt.h = 0 /\ dt.m = 0 /\ dt.s = 0
    THEN [dt EXCEPT !.h = 23, !.m = 59, !.s = 59]
    ELSE dt

\* extract_date_time(text) with the answer the inference service would give:
\* [kind |-> "error"] (the call raises), [kind |-> "None"], or
\* [kind |-> "text", date, time], a text for dateutil (non-fuzzy).
extract_date_time(input, response, today) ==
    IF input = None THEN None
    ELSE IF Parseable(Val(input)) THEN Some(Strftime(LocalDateTime(Val(input), today)))
    ELSE IF ~initialize_gemini THEN None
    ELSE IF response.kind = "error" \/ response.kind = "None" THEN None
    ELSE IF ~Parseable(response) THEN None
    ELSE Some(Strftime(DateutilParse(response, today)))

ExtractDateTime(input, response) ==
    /\ result' = Call("extract_date_time", input,
                      Ret(TRUE, "", extract_date_time(input, response, now)))
    /\ UNCHANGED <<store, now, api_key, connections, pending>>

\* datetime.weekday(): Monday is 0 (January 1st 2025 is a Wednesday)
Weekday(d) == (d + 1) % 7

DaysInMonth(k) == MonthStart[k + 1] - MonthStart[k]

\* date_range_str.lower().strip() of the texts given
Normalize(text) ==
    CASE text = " Today " -> "today"
      [] text = "This Week" -> "this week"
      [] OTHER -> text

RangeNames == {"today", "tomorrow", "yesterday", "this week", "next week", "this month"}

\* The eighteen datetime.now() readings that build common_ranges, in the order
\* Python takes them: R[1..2] today, R[3..4] tomorrow, R[5..6] yesterday,
\* R[7..10] this week, R[11..14] next week, R[15..18] this month.
\* replace(day=...) raises ValueError when the month read has more days than
\* the month of the datetime it is applied to.
MonthRaises(R) == DaysInMonth(MonthOf(R[18].date)) > DaysInMonth(MonthOf(R[16].date))

common_ranges(name, R) ==
    CASE name = "today" ->
            <<StartOfDay(R[1].date), DateTime(R[2].date, <<23, 59, 59>>)>>
      [] name = "tomorrow" ->
            <<StartOfDay(R[3].date + 1), DateTime(R[4].date + 1, <<23, 59, 59>>)>>
      [] name = "yesterday" ->
            <<StartOfDay(R[5].date - 1), DateTime(R[6].date - 1, <<23, 59, 59>>)>>
      [] name = "this week" ->
            <<StartOfDay(R[7].date - Weekday(R[8].date)),
              DateTime(R[9].date + 6 - Weekday(R[10].date), <<23, 59, 59>>)>>
      [] name = "next week" ->
            <<StartOfDay(R[11].date + 7 - Weekday(R[12].date)),
              DateTime(R[13].date + 13 - Weekday(R[14].date), <<23, 59, 59>>)>>
      [] name = "this month" ->
            <<StartOfDay(MonthStart[MonthOf(R[15].date)] + 1),
              DateTime(MonthStart[MonthOf(R[16].date)] + DaysInMonth(MonthOf(R[18].date)),
                       <<23, 59, 59>>)>>

\* parse_date_range's use of the inference service. The answer is
\* [kind |-> "error"], a JSON object [kind |-> "json", start_date, end_date]
\* whose fields (None for null, Some of the text of a string) come back as they
\* are, JSON of another shape [kind |-> "other"], or lines
\* [kind |-> "lines", start_date, end_date], each bound None for the word
\* "none" or Some of a text for dateutil.
RangeFromService(response) ==
    IF ~initialize_gemini \/ response.kind = "error" THEN <<None, None>>
    ELSE IF response.kind = "json" THEN <<response.start_date, response.end_date>>
    ELSE IF response.kind = "other" THEN <<None, None>>
    ELSE LET bound(v) == IF v = None THEN None
                         ELSE Some(Strftime(DateutilParse(Val(v), StartOfDay(now.date))))
             bad(v) == v # None /\ ~Parseable(Val(v))
         IN IF bad(response.start_date) \/ bad(response.end_date)
            THEN <<None, None>>
            ELSE <<bound(response.start_date), bound(response.end_date)>>

parse_date_range(text, R, response) ==
    IF MonthRaises(R) THEN Ret(FALSE, "ValueError", None)
    ELSE IF Normalize(text) \in RangeNames
    THEN LET r == common_ranges(Normalize(text), R) IN
         Ret(TRUE, "", <<Some(Strftime(r[1])), Some(Strftime(r[2]))>>)
    ELSE Ret(TRUE, "", RangeFromService(response))

\* The readings of a call during which the clock moves on at most once: the
\* first `cut` readings give the instant of the call, the others a later one.
Readings(cut, later) == [k \in 1..18 |-> IF k <= cut THEN now ELSE later]

ParseDateRange(text, response) ==
    \E cut \in 0..18, later \in Instants :
        /\ NotAfter(now, later)
        /\ now' = later
        /\ result' = Call("parse_date_range", text,
                          parse_date_range(text, Readings(cut, later), response))
        /\ UNCHANGED <<store, api_key, connections, pending>>

\* ------------------------------------------ the date-resolution specification
\* What a text given as --due holds, for dateutil.
DateTexts ==
    {[date |-> d, time |-> t] :
        d \in {None} \cup {Some(x) : x \in Days},
        t \in {None} \cup {Some(x) : x \in TimesOfDay}}

DateResponses ==
    {[kind |-> "error"], [kind |-> "None"],
     [kind |-> "text", date |-> None, time |-> None],
     [kind |-> "text", date |-> Some(StartDay), time |-> Some(<<23, 59, 59>>)]}

RangeTexts == RangeNames \cup {" Today ", "This Week", "before friday"}

\* The bytes of the word None, which the prompt of parse_date_range asks for
\* in place of a missing bound, as a JSON string.
NoneWord == <<78, 111, 110, 101>>

RangeResponses ==
    {[kind |-> "error"],
     [kind |-> "other"],
     [kind |-> "json", start_date |-> Some(Strftime(StartOfDay(StartDay))), end_date |-> None],
     [kind |-> "json", start_date |-> Some(NoneWord),
      end_date |-> Some(Strftime(DateTime(StartDay, <<23, 59, 59>>)))],
     [kind |-> "lines", start_date |-> None,
      end_date |-> Some([date |-> Some(StartDay), time |-> None])]}

NextDate ==
    \/ Tick
    \/ \E k \in {"", "key"} : SetApiKey(k)
    \/ \E t \in {None} \cup {Some(x) : x \in DateTexts}, r \in DateResponses :
          ExtractDateTime(t, r)
    \/ \E t \in RangeTexts, r \in RangeResponses : ParseDateRange(t, r)

SpecDate == Init /\ [][NextDate]_vars

\* ------------------------------------------- add_task, step by step
\* add_task is up to five transactions, each on a connection of its own: the
\* lookup of the context, its creation, the lookup of the project, its
\* creation, and the insert of the task. Calls of other processes may commit
\* between any two of them. pending holds the call that is under way: its
\* arguments, the transaction it is to do next and its local variables.
Frame(args, pc, context_id, project_id) ==
    Some([args |-> args, pc |-> pc, context_id |-> context_id, project_id |-> project_id])

\* lines 160-170: context_id = None; if context_name: get_context_by_name
AddTaskLookupContext(max, description, priority, due_date_time, context_name, project_name) ==
    LET args == [description |-> description, priority |-> priority,
                 due_date_time |-> due_date_time, context_name |-> context_name,
                 project_name |-> project_name]
        context == IF Truthy(context_name) THEN get_context_by_name(Val(context_name))
                   ELSE None
    IN
    /\ pending = None
    /\ seq.tasks < max
    /\ pending' = IF ~Truthy(context_name) THEN Frame(args, "project", None, None)
                  ELSE IF context # None
                  THEN Frame(args, "project", Some(Val(context).id), None)
                  ELSE Frame(args, "create_context", None, None)
    /\ result' = IF Truthy(context_name)
                 THEN Call("get_context_by_name", context_name, Ret(TRUE, "", context))
                 ELSE Call("get_db_connection", None, Ret(TRUE, "", None))
    /\ connections' = 0
    /\ UNCHANGED <<store, now, api_key>>

\* lines 172-174: result = add_context(context_name); the id is taken when the
\* insert succeeded, and nothing is done when it failed
AddTaskCreateContext ==
    /\ pending # None
    /\ Val(pending).pc = "create_context"
    /\ LET f == Val(pending)
           r == InsertNamed(contexts, seq.contexts, f.args.context_name)
       IN /\ contexts' = r.rows
          /\ seq' = [seq EXCEPT !.contexts = r.last]
          /\ pending' = Frame(f.args, "project",
                              IF r.ret.success THEN r.ret.value ELSE None, None)
          /\ result' = Call("add_context", f.args.context_name, r.ret)
    /\ connections' = 0
    /\ UNCHANGED <<projects, tasks, now, api_key>>

\* lines 176-180: project_id = None; if project_name: get_project_by_name
AddTaskLookupProject ==
    /\ pending # None
    /\ Val(pending).pc = "project"
    /\ LET f == Val(pending)
           project == IF Truthy(f.args.project_name)
                      THEN get_project_by_name(Val(f.args.project_name))
                      ELSE None
       IN /\ pending' = IF ~Truthy(f.args.project_name)
                        THEN Frame(f.args, "insert", f.context_id, None)
                        ELSE IF project # None
                        THEN Frame(f.args, "insert", f.context_id, Some(Val(project).id))
                        ELSE Frame(f.args, "create_project", f.context_id, None)
          /\ result' = IF Truthy(f.args.project_name)
                       THEN Call("get_project_by_name", f.args.project_name,
                                 Ret(TRUE, "", project))
                       ELSE result
    /\ connections' = 0
    /\ UNCHANGED <<store, now, api_key>>

\* lines 183-185: result = add_project(project_name)
AddTaskCreateProject ==
    /\ pending # None
    /\ Val(pending).pc = "create_project"
    /\ LET f == Val(pending)
           r == InsertNamed(projects, seq.projects, f.args.project_name)
       IN /\ projects' = r.rows
          /\ seq' = [seq EXCEPT !.projects = r.last]
          /\ pending' = Frame(f.args, "insert", f.context_id,
                              IF r.ret.success THEN r.ret.value ELSE None)
          /\ result' = Call("add_project", f.args.project_name, r.ret)
    /\ connections' = 0
    /\ UNCHANGED <<contexts, tasks, now, api_key>>

\* lines 187-217: the insert of the task with the ids found, and the return
AddTaskInsert ==
    /\ pending # None
    /\ Val(pending).pc = "insert"
    /\ LET f == Val(pending)
           row == [id |-> NextRowId(tasks, seq.tasks),
                   description |-> f.args.description,
                   priority |-> f.args.priority,
                   due_date_time |-> f.args.due_date_time,
                   context_id |-> f.context_id, project_id |-> f.project_id,
                   completed |-> FALSE]
       IN IF f.args.description = None
          THEN /\ UNCHANGED <<tasks, seq>>
               /\ result' = Call("add_task", f.args, Ret(FALSE, "Failure", None))
          ELSE /\ tasks' = tasks \cup {row}
               /\ seq' = [seq EXCEPT !.tasks = row.id]
               /\ result' = Call("add_task", f.args,
                                 Ret(TRUE, "", Some(Joined(row, contexts, projects))))
    /\ pending' = None
    /\ connections' = 0
    /\ UNCHANGED <<contexts, projects, now, api_key>>

\* --------------------------------------- the interleaving specification
\* Task ids the interleaving specification issues.
MaxRaceTasks == 2

\* One add_task call at a time taken step by step, while other processes add
\* contexts and projects and mark tasks done.
NextRace ==
    \/ \E a \in AddInputs :
          AddTaskLookupContext(MaxRaceTasks, a[1], Some("medium"), None, a[2], a[3])
    \/ AddTaskCreateContext
    \/ AddTaskLookupProject
    \/ AddTaskCreateProject
    \/ AddTaskInsert
    \/ \E n \in Names : AddContext(Some(n))
    \/ \E n \in ProjectNames : AddProject(Some(n))

SpecRace == Init /\ [][NextRace]_vars

\* ------------------------------------------------------------ the commands
\* geminitask.check_gemini_api_key: "if not api_key: ... return False"
check_gemini_api_key == api_key # ""

\* geminitask.validate_priority, for the lower-case words: a falsy value is None
validate_priority(value) == IF Truthy(value) THEN value ELSE None

\* get_config_value("priority_default", "medium") of the default configuration
priority_default == "medium"

\* The --due of add and edit: no date text, or no credential, gives None
\* without any date resolution; otherwise what extract_date_time returns.
DueDateTime(due, response) ==
    IF due # None /\ check_gemini_api_key
    THEN extract_date_time(due, response, now)
    ELSE None

\* geminitask.add
CmdAdd(max, description, priority, due, context, project, response) ==
    AddTask(max, Some(description),
            IF Truthy(validate_priority(priority)) THEN validate_priority(priority)
            ELSE Some(priority_default),
            DueDateTime(due, response), context, project)

\* The --due of list: no text, or no credential, gives None without any date
\* resolution; otherwise the pair parse_date_range returns (the clock read
\* eighteen times within one instant).
DueRange(due, response) ==
    IF due # None /\ check_gemini_api_key
    THEN Some(parse_date_range(Val(due), Readings(18, now), response).value)
    ELSE None

\* geminitask.list
CmdList(all, priority, due, context, project, overdue, completed, response) ==
    ListTasks(Filter(all, completed, overdue, validate_priority(priority),
                     DueRange(due, response), context, project))

\* geminitask.edit: any([description, priority, due, context, project is not None])
AnyOption(description, priority, due, context, project) ==
    \/ Truthy(description)
    \/ Truthy(priority)
    \/ due # None
    \/ Truthy(context)
    \/ project # None

\* geminitask.edit
CmdEdit(task_id, description, priority, due, context, project, response) ==
    IF get_task(task_id) # None
          /\ AnyOption(description, validate_priority(priority), due, context, project)
    THEN EditTask(task_id, description, validate_priority(priority),
                  DueDateTime(due, response), context, project)
    ELSE \* "not found", or "No changes specified": db.get_task alone was called
         /\ result' = Call("get_task", task_id, Ret(TRUE, "", get_task(task_id)))
         /\ connections' = 0
         /\ UNCHANGED <<store, now, api_key, pending>>

\* ------------------------------------------------ the command specification
\* Task ids the command specification issues.
MaxCmdTasks == 2

\* --due texts of add and edit: a date alone, which dateutil parses, and a text
\* it cannot parse
DueTexts ==
    {[date |-> Some(StartDay + 1), time |-> None],
     [date |-> None, time |-> None]}

\* --due texts of list: a named range, and a text left to the inference service
ListDueTexts == {"today", "before friday"}

\* <<due, context, project>> of add
CmdAddInputs ==
    {<<None, None, None>>} \cup {<<Some(d), Some("work"), Some("work")>> : d \in DueTexts}

\* <<description, due, context, project>> of edit: no option at all, and one
\* option alone, the empty strings included
CmdEditInputs ==
    {<<None, None, None, None>>,
     <<Some("a"), None, None, None>>,
     <<None, None, Some(""), None>>,
     <<None, None, None, Some("")>>}

CmdTaskIds == 1..MaxCmdTasks

NextCmd ==
    \/ SetApiKey("key")
    \/ \E a \in CmdAddInputs, r \in DateResponses :
          CmdAdd(MaxCmdTasks, "a", None, a[1], a[2], a[3], r)
    \/ \E all \in BOOLEAN, d \in {None} \cup {Some(t) : t \in ListDueTexts},
          r \in RangeResponses :
          CmdList(all, None, d, None, None, FALSE, FALSE, r)
    \/ \E i \in CmdTaskIds, e \in CmdEditInputs, r \in DateResponses :
          CmdEdit(i, e[1], None, e[2], e[3], e[4], r)
SpecCmd == Init /\ [][NextCmd]_vars

\* ------------------------------------------------------------ store claims
StepOf(op) == result'.op = op

TaskRow(rows, task_id) == CHOOSE t \in rows : t.id = task_id

HasTask(rows, task_id) == \E t \in rows : t.id = task_id

UniqueNames(rows) == \A a \in rows, b \in rows : a.name = b.name => a = b

\* C1: CreateContext(name) of a name not yet stored succeeds and
\* FindContextByName(name) then returns a Context with that name and the id
\* handed back; CreateContext of a stored name fails with AlreadyExists and
\* leaves the Context rows as they were.
C1_CreateContextThenFind ==
    [][\A n \in Names :
        (StepOf("add_context") /\ result'.args = Some(n)) =>
            IF FindByName(contexts, n) = None
            THEN /\ result'.ret.success
                 /\ FindByName(contexts', n) # None
                 /\ Val(FindByName(contexts', n)).name = n
                 /\ Val(FindByName(contexts', n)).id = Val(result'.ret.value)
                 /\ contexts \subseteq contexts'
            ELSE /\ ~result'.ret.success
                 /\ result'.ret.error = "AlreadyExists"
                 /\ contexts' = contexts]_vars

\* A second CreateContext of a stored name has been refused.
C1_Witness ==
    /\ result.op = "add_context"
    /\ result.ret.error = "AlreadyExists"
    /\ get_context_by_name(Val(result.args)) # None

\* What an add_task step does for the context name cn, when cn counts.
C2_Step(cn) ==
    IF FindByName(contexts, cn) = None
    THEN /\ \E r \in contexts' : r.name = cn /\ contexts' = contexts \cup {r}
         /\ Cardinality(contexts') = Cardinality(contexts) + 1
         /\ result'.ret.success =>
                \E t \in tasks' \ tasks :
                    t.context_id = Some(Val(FindByName(contexts', cn)).id)
    ELSE /\ contexts' = contexts
         /\ result'.ret.success =>
                \E t \in tasks' \ tasks :
                    t.context_id = Some(Val(FindByName(contexts, cn)).id)

\* C2 as stated: every context_name given to AddTask, the empty string
\* included, is created when unknown and reused when known.
C2_AsStated ==
    /\ [][\A cn \in Names :
            (StepOf("add_task") /\ result'.args.context_name = Some(cn))
                => C2_Step(cn)]_vars
    /\ [](UniqueNames(contexts))

\* C2 (amended): AddTask with a non-empty context_name that matches no stored
\* Context creates exactly one Context with that name and gives the new task
\* its id; with a non-empty name that is stored it reuses that Context; there
\* is never more than one Context row per name.
C2_AddTaskContextOncePerName ==
    /\ [][\A cn \in Names \ {""} :
            (StepOf("add_task") /\ result'.args.context_name = Some(cn))
                => C2_Step(cn)]_vars
    /\ [](UniqueNames(contexts))

\* Two tasks added under the same context name share the one Context row.
C2_Witness ==
    /\ result.op = "add_task"
    /\ result.ret.success
    /\ Truthy(result.args.context_name)
    /\ \E t \in tasks, u \in tasks :
          /\ t.id # u.id
          /\ t.context_id = u.context_id
          /\ t.context_id = Some(Val(get_context_by_name(Val(result.args.context_name))).id)
    /\ Cardinality({c \in contexts : c.name = Val(result.args.context_name)}) = 1

\* C6: MarkTaskDone of an id with no Task row fails with NotFound and changes
\* nothing; of an existing task it succeeds, the task is completed afterwards,
\* and if it was completed already the store is as it was.
C6_MarkTaskDone ==
    [][\A i \in TaskIds :
        (StepOf("mark_task_done") /\ result'.args = i) =>
            IF ~HasTask(tasks, i)
            THEN /\ result'.ret.error = "NotFound"
                 /\ ~result'.ret.success
                 /\ UNCHANGED store
            ELSE /\ result'.ret.success
                 /\ tasks' = (tasks \ {TaskRow(tasks, i)})
                                \cup {[TaskRow(tasks, i) EXCEPT !.completed = TRUE]}
                 /\ TaskRow(tasks, i).completed => UNCHANGED store
                 /\ UNCHANGED <<contexts, projects, seq>>]_vars

\* MarkTaskDone has succeeded on a task, which is completed.
C6_Witness ==
    /\ result.op = "mark_task_done"
    /\ result.ret.success
    /\ HasTask(tasks, result.args)
    /\ TaskRow(tasks, result.args).completed

\* C7: EditTask of an existing task with context_name = "" succeeds and leaves
\* context_id None; with context_name not supplied and another field supplied
\* it succeeds and leaves context_id as it was; likewise project_name and
\* project_id.
C7_EditClearsOrKeeps ==
    [][\A i \in TaskIds :
        (StepOf("edit_task") /\ result'.args.task_id = i /\ HasTask(tasks, i)) =>
            LET a == result'.args
                other(n) == \/ a.description # None
                            \/ a.priority # None
                            \/ a.due_date_time # None
                            \/ n # None
            IN
            /\ a.context_name = Some("") =>
                  /\ result'.ret.success
                  /\ HasTask(tasks', i) /\ TaskRow(tasks', i).context_id = None
            /\ (a.context_name = None /\ other(a.project_name)) =>
                  /\ result'.ret.success
                  /\ HasTask(tasks', i)
                  /\ TaskRow(tasks', i).context_id = TaskRow(tasks, i).context_id
            /\ a.project_name = Some("") =>
                  /\ result'.ret.success
                  /\ HasTask(tasks', i) /\ TaskRow(tasks', i).project_id = None
            /\ (a.project_name = None /\ other(a.context_name)) =>
                  /\ result'.ret.success
                  /\ HasTask(tasks', i)
                  /\ TaskRow(tasks', i).project_id = TaskRow(tasks, i).project_id]_vars

\* An edit that gave the empty context name alone has succeeded on a task that
\* keeps its project.
C7_Witness ==
    /\ result.op = "edit_task"
    /\ result.ret.success
    /\ result.args.context_name = Some("")
    /\ result.args.project_name = None
    /\ result.args.description = None
    /\ HasTask(tasks, result.args.task_id)
    /\ TaskRow(tasks, result.args.task_id).context_id = None
    /\ TaskRow(tasks, result.args.task_id).project_id # None
    /\ contexts # {}

\* C8: DeleteTask of an existing task succeeds, removes that row alone and
\* leaves the Context and Project rows as they were; of an id with no Task row
\* it fails with NotFound; and an id that was handed out and has no row any
\* more never gets one again, so that GetTask of it stays absent.
C8_DeleteTask ==
    /\ [][\A i \in TaskIds :
            (StepOf("delete_task") /\ result'.args = i) =>
                IF HasTask(tasks, i)
                THEN /\ result'.ret.success
                     /\ tasks' = tasks \ {TaskRow(tasks, i)}
                     /\ ~HasTask(tasks', i)
                     /\ UNCHANGED <<contexts, projects>>
                ELSE /\ ~result'.ret.success
                     /\ result'.ret.error = "NotFound"
                     /\ UNCHANGED store]_vars
    /\ [][\A i \in TaskIds :
            (i <= seq.tasks /\ get_task(i) = None) => ~HasTask(tasks', i)]_vars

\* A task has been deleted; the Context only it referenced is still stored.
C8_Witness ==
    /\ result.op = "delete_task"
    /\ result.ret.success
    /\ get_task(result.args) = None
    /\ tasks = {}
    /\ \E c \in contexts : c.name = "work"

\* -------------------------------------------------------- listing claims
Listed == result.op = "list_tasks"

Elems(rows) == {rows[k] : k \in 1..Len(rows)}

\* strptime("%Y-%m-%d %H:%M:%S") of the digits Strftime writes
Strptime(text) ==
    [date |-> MonthStart[text[5] * 10 + text[6]] + text[7] * 10 + text[8],
     h |-> text[9] * 10 + text[10],
     m |-> text[11] * 10 + text[12],
     s |-> text[13] * 10 + text[14]]

\* the stored timestamp a is an instant strictly before the instant b
Earlier(a, b) == ~NotAfter(b, a)

NoOtherFilter(f) ==
    /\ f.priority = None /\ f.due_range = None
    /\ f.context_name = None /\ f.project_name = None /\ ~f.overdue

\* C3: ListTasks with neither all nor completed_only returns no completed
\* task; with completed_only it returns completed tasks only; with all and no
\* other filter it returns every stored task, completed or not.
C3_CompletedVisibility ==
    Listed =>
        LET f == result.args
            rows == Elems(result.ret.value)
        IN
        /\ (~f.all_tasks /\ ~f.completed) => \A r \in rows : ~r.completed
        /\ f.completed => \A r \in rows : r.completed
        /\ (f.all_tasks /\ ~f.completed /\ NoOtherFilter(f)) =>
              {r.id : r \in rows} = {t.id : t \in tasks}

\* ListTasks(all) has returned a completed and a not-completed task.
C3_Witness ==
    /\ Listed
    /\ result.args.all_tasks /\ ~result.args.completed /\ NoOtherFilter(result.args)
    /\ \E r \in Elems(result.ret.value) : r.completed
    /\ \E r \in Elems(result.ret.value) : ~r.completed

PriorityRank(p) ==
    IF p = None THEN 0
    ELSE CASE Val(p) = "high" -> 3 [] Val(p) = "medium" -> 2 [] Val(p) = "low" -> 1

\* The order C4 states: due date ascending with no due date last, then
\* priority high > medium > low > null, then id ascending.
StatedBefore(a, b) ==
    IF a.due_date_time # b.due_date_time
    THEN \/ b.due_date_time = None
         \/ /\ a.due_date_time # None
            /\ Earlier(Strptime(Val(a.due_date_time)), Strptime(Val(b.due_date_time)))
    ELSE IF PriorityRank(a.priority) # PriorityRank(b.priority)
    THEN PriorityRank(a.priority) > PriorityRank(b.priority)
    ELSE a.id < b.id

\* C4: the sequence ListTasks returns is sorted by due_date_time ascending with
\* null due dates last, then by priority high > medium > low > null, then by id
\* ascending.
C4_SortedAsStated ==
    Listed =>
        \A i \in 1..Len(result.ret.value), j \in 1..Len(result.ret.value) :
            i < j => StatedBefore(result.ret.value[i], result.ret.value[j])

\* Whether a stored task satisfies every filter of f that is set, at instant t.
Satisfies(row, f, t) ==
    /\ (f.all_tasks \/ f.completed \/ ~row.completed)
    /\ f.completed => row.completed
    /\ f.priority # None => row.priority = f.priority
    /\ f.due_range # None =>
          /\ row.due_date_time # None
          /\ NotAfter(Strptime(Val(Val(f.due_range)[1])), Strptime(Val(row.due_date_time)))
          /\ NotAfter(Strptime(Val(row.due_date_time)), Strptime(Val(Val(f.due_range)[2])))
    /\ f.context_name # None => row.context_name = f.context_name
    /\ f.project_name # None => row.project_name = f.project_name
    /\ f.overdue =>
          /\ row.due_date_time # None
          /\ Earlier(Strptime(Val(row.due_date_time)), t)
          /\ ~row.completed

\* C5: ListTasks returns exactly the stored tasks, each once, that satisfy
\* every filter that is set; an overdue task has a due_date_time, strictly
\* before the current instant, and is not completed, so that overdue_only with
\* completed_only returns nothing.
C5_FiltersConjunctive ==
    Listed =>
        LET f == result.args
            rows == result.ret.value
        IN
        /\ Elems(rows) =
              {r \in {Joined(t, contexts, projects) : t \in tasks} : Satisfies(r, f, now)}
        /\ Len(rows) = Cardinality(Elems(rows))
        /\ (f.overdue /\ f.completed) => rows = <<>>

\* An overdue listing has returned a task and left out one that is due at this
\* very instant.
C5_Witness ==
    /\ Listed
    /\ result.args.overdue /\ ~result.args.completed /\ result.args.project_name = None
    /\ Len(result.ret.value) > 0
    /\ \E t \in tasks :
          /\ ~t.completed
          /\ t.due_date_time = Some(Strftime(now))
          /\ \A r \in Elems(result.ret.value) : r.id # t.id

\* ------------------------------------------------- date-resolution claims
\* C9: for a text the local parser accepts, ResolveDateTime gives the date of
\* the text (today when it holds none) with the time of day the text holds,
\* unchanged, and with 23:59:59 only when the text holds no time of day.
C9_ExplicitTimePreserved ==
    (result.op = "extract_date_time" /\ result.args # None
        /\ Parseable(Val(result.args))) =>
        LET text == Val(result.args)
            out == result.ret.value
        IN
        /\ out # None
        /\ text.date # None => Strptime(Val(out)).date = Val(text.date)
        /\ text.time # None =>
              <<Strptime(Val(out)).h, Strptime(Val(out)).m, Strptime(Val(out)).s>>
                  = Val(text.time)
        /\ text.time = None =>
              <<Strptime(Val(out)).h, Strptime(Val(out)).m, Strptime(Val(out)).s>>
                  = <<23, 59, 59>>

\* C10: ResolveDateRange("today"), after trim and lowercase, returns
\* (D 00:00:00, D 23:59:59) with one date D, the current date of the call.
C10_TodayOneDate ==
    [][(StepOf("parse_date_range") /\ Normalize(result'.args) = "today") =>
        \E d \in now.date..now'.date :
            /\ result'.ret.success
            /\ result'.ret.value = <<Some(Strftime(StartOfDay(d))),
                                      Some(Strftime(DateTime(d, <<23, 59, 59>>)))>>]_vars

\* ------------------------------------------------ store claims, continued
\* C11: an AddTask that returns a failure leaves the store as it was: the call
\* has added no Task row and no Context or Project row.
C11_FailedAddTaskChangesNothing ==
    [][(StepOf("add_task") /\ ~result'.ret.success) =>
          /\ tasks' = tasks
          /\ contexts' = contexts
          /\ projects' = projects]_vars

\* C12: when AddTask is given a context_name or project_name, finds no row for
\* it and fails to create one because another call inserted the name in
\* between, AddTask reports the failure: it never returns success with a task
\* whose context_id (project_id) is null although a name was given.
C12_AutoCreateFailureSurfaced ==
    (result.op = "add_task" /\ result.ret.success) =>
        /\ Truthy(result.args.context_name) => Val(result.ret.value).context_id # None
        /\ Truthy(result.args.project_name) => Val(result.ret.value).project_id # None

\* C13: when the list command gets a --due text that date resolution cannot
\* resolve (parse_date_range returns (None, None)), it lists the tasks the same
\* command lists without --due.
C13_UnresolvedDueListsAsWithoutDue ==
    [][\A all \in BOOLEAN, d \in ListDueTexts, r \in RangeResponses :
          (/\ CmdList(all, None, Some(d), None, None, FALSE, FALSE, r)
           /\ check_gemini_api_key
           /\ parse_date_range(d, Readings(18, now), r).value = <<None, None>>)
              => result'.ret.value =
                    list_tasks(Filter(all, FALSE, FALSE, None, None, None, None),
                               Strftime(now))]_vars

\* C14: a date text that is resolved locally is resolved whether or not a
\* credential is configured: list --due today filters by today's range, and
\* add --due with a text dateutil parses stores the date parsed.
C14_LocalResolutionNeedsNoCredential ==
    /\ [][\A all \in BOOLEAN, r \in RangeResponses :
             CmdList(all, None, Some("today"), None, None, FALSE, FALSE, r)
                => result'.args.due_range =
                      Some(parse_date_range("today", Readings(18, now), r).value)]_vars
    /\ [][\A a \in CmdAddInputs, r \in DateResponses :
             (/\ a[1] # None
              /\ Parseable(Val(a[1]))
              /\ CmdAdd(MaxCmdTasks, "a", None, a[1], a[2], a[3], r))
                => result'.args.due_date_time =
                      Some(Strftime(LocalDateTime(Val(a[1]), now)))]_vars

\* C15: in every state the store operations reach, each Task's context_id is
\* null or the id of a stored Context, and each Task's project_id is null or
\* the id of a stored Project.
C15_ReferencesExist ==
    \A t \in tasks :
        /\ t.context_id # None => \E c \in contexts : c.id = Val(t.context_id)
        /\ t.project_id # None => \E p \in projects : p.id = Val(t.project_id)

\* An edit has given a task, which has a project, a context by name.
C15_Witness ==
    /\ result.op = "edit_task"
    /\ result.ret.success
    /\ Truthy(result.args.context_name)
    /\ HasTask(tasks, result.args.task_id)
    /\ TaskRow(tasks, result.args.task_id).context_id # None
    /\ TaskRow(tasks, result.args.task_id).project_id # None

\* C16: completed is one-way: a new task is not completed, completed changes
\* in MarkTaskDone alone, and a completed task stays completed as long as it
\* is stored, whatever AddTask, EditTask, MarkTaskDone or DeleteTask follows.
C16_CompletedOneWay ==
    [][/\ \A t \in tasks' : ~HasTask(tasks, t.id) => ~t.completed
       /\ \A t \in tasks :
             HasTask(tasks', t.id) =>
                /\ t.completed => TaskRow(tasks', t.id).completed
                /\ TaskRow(tasks', t.id).completed # t.completed
                      => StepOf("mark_task_done")]_vars

\* A completed task has been edited and is completed still.
C16_Witness ==
    /\ result.op = "edit_task"
    /\ result.ret.success
    /\ HasTask(tasks, result.args.task_id)
    /\ TaskRow(tasks, result.args.task_id).completed

\* C17: every stored Context and every stored Project has a non-empty name,
\* whatever string CreateContext/CreateProject was given and whichever call
\* created the row.
C17_NamesNonEmpty ==
    \A r \in contexts \cup projects : r.name # ""

\* C18: every store operation has closed the connection it opened when it
\* returns, on every exit path.
C18_ConnectionsReleased ==
    connections = 0

\* ------------------------------------------------ command claims, continued
\* C19: the edit command given an empty string as its only option clears the
\* association of an existing task: --context "" leaves context_id null and
\* --project "" leaves project_id null.
C19_EditEmptyStringClears ==
    [][\A i \in CmdTaskIds, r \in DateResponses :
          get_task(i) # None =>
             /\ CmdEdit(i, None, None, None, Some(""), None, r)
                   => TaskRow(tasks', i).context_id = None
             /\ CmdEdit(i, None, None, None, None, Some(""), r)
                   => TaskRow(tasks', i).project_id = None]_vars

\* -------------------------------------- date-resolution claims, continued
\* A YYYY-MM-DD HH:MM:SS text: fourteen digits.
Canonical(text) ==
    /\ Len(text) = 14
    /\ \A k \in 1..14 : text[k] \in 0..9

\* C20: whatever the inference service answers, each of the two components
\* parse_date_range returns for a text that is no named range is None or a
\* YYYY-MM-DD HH:MM:SS timestamp, and a bound the answer gives as null or as
\* the word None comes back as None.
C20_RangeComponentsCanonical ==
    [][\A t \in RangeTexts, r \in RangeResponses :
          (/\ StepOf("parse_date_range")
           /\ result'.args = t
           /\ Normalize(t) \notin RangeNames
           /\ result'.ret.success
           /\ ParseDateRange(t, r)) =>
             /\ \A k \in 1..2 :
                   \/ result'.ret.value[k] = None
                   \/ Canonical(Val(result'.ret.value[k]))
             /\ (r.kind \in {"json", "lines"} /\ initialize_gemini) =>
                   /\ r.start_date \in {None, Some(NoneWord)}
                         => result'.ret.value[1] = None
                   /\ r.end_date \in {None, Some(NoneWord)}
                         => result'.ret.value[2] = None]_vars

\* --------------------------------------------------- format_relative_date
\* dt.strftime("%I:%M %p").lstrip("0"): the hour of the twelve-hour clock
\* without its leading zero, the minute, and AM or PM
HourStr(dt) ==
    [hour |-> IF dt.h % 12 = 0 THEN 12 ELSE dt.h % 12, minute |-> dt.m, pm |-> dt.h >= 12]

\* format_relative_date(date_str) at the instant today: the words of the text
\* returned and the values put into it
format_relative_date(date_str, today) ==
    IF date_str = None THEN [form |-> "No due date"]
    ELSE IF ~Canonical(Val(date_str)) THEN [form |-> "Invalid date"]
    ELSE LET dt == Strptime(Val(date_str))
             days_diff == dt.date - today.date
         IN IF days_diff = 0 THEN [form |-> "Today at", time |-> HourStr(dt)]
            ELSE IF days_diff = 1 THEN [form |-> "Tomorrow at", time |-> HourStr(dt)]
            ELSE IF days_diff = -1 THEN [form |-> "Yesterday at", time |-> HourStr(dt)]
            ELSE IF 1 < days_diff /\ days_diff < 7
            THEN [form |-> "%A at", weekday |-> Weekday(dt.date), time |-> HourStr(dt)]
            ELSE IF -7 < days_diff /\ days_diff < 0
            THEN [form |-> "days ago", days |-> -days_diff]
            ELSE [form |-> "%b %d, %Y at", month |-> MonthOf(dt.date),
                  day |-> DayOf(dt.date), time |-> HourStr(dt)]

FormatRelativeDate(date_str) ==
    /\ result' = Call("format_relative_date", date_str,
                      Ret(TRUE, "", format_relative_date(date_str, now)))
    /\ UNCHANGED <<store, now, api_key, connections, pending>>

\* ----------------------------------------- the formatting specification
\* Days before and after StartDay of the timestamps formatted.
MaxOffset == 8

\* The due dates shown: none, a text that is no timestamp, and the first and
\* the last second of each day around StartDay.
FormatInputs ==
    {None, Some(NoneWord)}
        \cup {Some(Strftime(DateTime(d, t))) :
                 d \in (StartDay - MaxOffset)..(StartDay + MaxOffset),
                 t \in {<<0, 0, 0>>, <<23, 59, 59>>}}

NextFormat ==
    \/ Tick
    \/ \E s \in FormatInputs : FormatRelativeDate(s)

SpecFormat == Init /\ [][NextFormat]_vars

\* C21: FormatRelative picks its form from the whole-day difference d between
\* the timestamp's date and the current date: Today for d = 0, Tomorrow for
\* d = 1, Yesterday for d = -1, the weekday name for 2 <= d <= 6, "N days ago"
\* with N = -d for every d from -2 down to -7, and the absolute date for every
\* other d.
C21_FormByDayDifference ==
    [][(/\ StepOf("format_relative_date")
        /\ result'.args # None
        /\ Canonical(Val(result'.args))) =>
          LET d == Strptime(Val(result'.args)).date - now.date
              out == result'.ret.value
          IN /\ d = 0 => out.form = "Today at"
             /\ d = 1 => out.form = "Tomorrow at"
             /\ d = -1 => out.form = "Yesterday at"
             /\ d \in 2..6 => out.form = "%A at"
             /\ d \in (-7)..(-2) => out.form = "days ago" /\ out.days = -d
             /\ (d > 6 \/ d < -7) => out.form = "%b %d, %Y at"]_vars
====
